---------------------------- MODULE Spec2Model ----------------------------
(***************************************************************************)
(* Service safe point keeper of BR (pkg/utils/safe_point.go).              *)
(*                                                                         *)
(* The module models                                                       *)
(*   - the pure parts of getGCSafePoint, CheckGCSafePoint and              *)
(*     UpdateServiceSafePoint as operators over the response of the PD     *)
(*     client,                                                             *)
(*   - StartServiceSafePointKeeper and its goroutine as a state machine    *)
(*     whose remote calls are split in "sent", "served" and "returned",    *)
(*   - the PD service (global GC safe point, the record of one service     *)
(*     safe point with its TTL) as far as the keeper's calls touch it.     *)
(*                                                                         *)
(* Specifications:                                                         *)
(*   FnSpec     the three functions applied to inputs drawn from bounded   *)
(*              sets                                                       *)
(*   Spec       the keeper with ticks that may fire at any moment (every   *)
(*              pair of timer periods is covered)                          *)
(*   LiveSpec   Spec with the fairness Go's scheduler and select give      *)
(*   TimedSpec  the keeper with a discrete clock, the two ticker periods   *)
(*              and the TTL of the record at PD                            *)
(*   StartSpec  StartServiceSafePointKeeper up to its return, for TTLs     *)
(*              whose product with time.Second leaves time.Duration        *)
(*   PairSpec   two keepers with ids of their own renewing against one PD  *)
(***************************************************************************)
EXTENDS Integers, Sequences, FiniteSets, TLC

(***************************************************************************)
(* Bounds of the model.                                                    *)
(***************************************************************************)
\* uint64 is modelled as 0..MaxUint with wrap-around arithmetic.
MaxUint == 3
\* TTLs range over -1..MaxTTL (seconds).
MaxTTL == 2
\* Clock units per second (time.Second is 10^9 ns in Go).
Second == 3
\* time.Duration (int64) is modelled as -(MaxDuration + 1)..MaxDuration with
\* wrap-around arithmetic.
MaxDuration == 31
\* StartSpec draws the TTL from -MaxWideTTL..MaxWideTTL, which holds values
\* whose product with Second leaves the range of time.Duration.
MaxWideTTL == 12

(***************************************************************************)
(* Program constants.                                                      *)
(***************************************************************************)
preUpdateServiceSafePointFactor == 3
checkGCSafePointGapTime == 5 * Second

Uints == 0..MaxUint
TTLs == (0 - 1)..MaxTTL
IDs == {"br-1"}

\* uint64 subtraction of one: 0 - 1 wraps to the largest value.
Dec(x) == (x + MaxUint) % (MaxUint + 1)

\* int64 arithmetic wraps around silently.
WrapDuration(x) ==
    ((x + MaxDuration + 1) % (2 * (MaxDuration + 1))) - (MaxDuration + 1)

WideTTLs == (0 - MaxWideTTL)..MaxWideTTL

\* Go's integer division truncates toward zero.
GoDiv(a, b) == IF a >= 0 THEN a \div b ELSE 0 - ((0 - a) \div b)

BRServiceSafePoint == [ID : IDs, TTL : TTLs, BackupTS : Uints]

\* MakeSafePointID: "br-" followed by a fresh UUID.
UUIDs == {"1", "2"}
MakeSafePointID(uuid) == "br-" \o uuid

(***************************************************************************)
(* Responses of the PD client.  A failed call carries the zero value       *)
(* beside its error, as Go functions returning (value, error) do.          *)
(***************************************************************************)
PDResponses ==
    {[val |-> v, err |-> FALSE] : v \in Uints} \cup {[val |-> 0, err |-> TRUE]}

\* PD's global GC safe point after UpdateGCSafePoint(req): it never moves back.
PDUpdateGCSafePoint(cur, req) == IF req > cur THEN req ELSE cur

(***************************************************************************)
(* getGCSafePoint: pdClient.UpdateGCSafePoint(ctx, 0), error traced.       *)
(***************************************************************************)
getGCSafePointProbe == 0

getGCSafePoint(resp) ==
    IF resp.err THEN [safePoint |-> 0, err |-> TRUE]
    ELSE [safePoint |-> resp.val, err |-> FALSE]

(***************************************************************************)
(* CheckGCSafePoint(ts) given the response of the query: "nil" or the      *)
(* GC-exceeded error.                                                      *)
(***************************************************************************)
\* Faulty variant: the comparison is strict, so safePoint = ts passes.
CheckGCSafePoint_BoundaryPasses(ts, resp) ==
    LET r == getGCSafePoint(resp) IN
    IF r.err THEN "nil"
    ELSE IF ts < r.safePoint THEN "ErrBackupGCSafepointExceeded"
    ELSE "nil"

\* Faulty variant: the error of the query is returned.
CheckGCSafePoint_PropagatesQueryError(ts, resp) ==
    LET r == getGCSafePoint(resp) IN
    IF r.err THEN "error"
    ELSE IF ts <= r.safePoint THEN "ErrBackupGCSafepointExceeded"
    ELSE "nil"

\* Faulty variant: a safe point at ts - 1, the registered value, is taken
\* as exceeding.
CheckGCSafePoint_RegisteredValueExceeds(ts, resp) ==
    LET r == getGCSafePoint(resp) IN
    IF r.err THEN "nil"
    ELSE IF ts <= r.safePoint + 1 THEN "ErrBackupGCSafepointExceeded"
    ELSE "nil"

CheckGCSafePoint(ts, resp) ==
    LET r == getGCSafePoint(resp) IN
    IF r.err THEN "nil"
    ELSE IF ts <= r.safePoint THEN "ErrBackupGCSafepointExceeded"
    ELSE "nil"

(***************************************************************************)
(* UpdateServiceSafePoint: the request it submits and, given the response, *)
(* whether it warns and what it returns.                                   *)
(***************************************************************************)
\* Faulty variant: BackupTS itself is submitted.
UpdateRequest_SubmitsBackupTS(s) ==
    [id |-> s.ID, ttl |-> s.TTL, ts |-> s.BackupTS]

\* Faulty variant: every keeper registers under one fixed id.
UpdateRequest_FixedID(s) ==
    [id |-> "br-1", ttl |-> s.TTL, ts |-> Dec(s.BackupTS)]

UpdateRequest(s) ==
    [id |-> s.ID, ttl |-> s.TTL, ts |-> Dec(s.BackupTS)]

\* Faulty variant: a lost service safe point is returned as an error.
UpdateServiceSafePoint_LostIsError(s, resp) ==
    [warn |-> resp.val > Dec(s.BackupTS),
     ret  |-> IF resp.err \/ resp.val > Dec(s.BackupTS) THEN "error" ELSE "nil"]

UpdateServiceSafePoint(s, resp) ==
    [warn |-> resp.val > Dec(s.BackupTS),
     ret  |-> IF resp.err THEN "error" ELSE "nil"]

\* updateGapTime := time.Duration(sp.TTL) * time.Second / factor
\* Faulty variant: the period is the whole TTL.
updateGapTime_NoFactor(s) == s.TTL * Second

updateGapTime(s) ==
    GoDiv(WrapDuration(s.TTL * Second), preUpdateServiceSafePointFactor)


(***************************************************************************)
(* State.                                                                  *)
(***************************************************************************)
VARIABLES
    sp,               \* the BRServiceSafePoint the keeper was started with
    pc,               \* where StartServiceSafePointKeeper / its goroutine is
    ctxDone,          \* ctx.Done() is closed
    updateTickOn,     \* updateTick is created and not stopped
    checkTickOn,      \* checkTick is created and not stopped
    updateTickC,      \* ticks buffered in updateTick.C (capacity 1)
    checkTickC,       \* ticks buffered in checkTick.C (capacity 1)
    updateDue,        \* clock units until updateTick fires next
    checkDue,         \* clock units until checkTick fires next
    inflight,         \* the remote call the keeper is blocked in, if any
    gcSafePoint,      \* PD: the global GC safe point
    serviceSafePoint, \* PD: the record stored under sp.ID
    calls,            \* history: what the keeper called so far, see Log
    expiry,           \* history: "no", or PD dropped the record when its TTL
                      \* ran out ("expired"), or a successful renewal came
                      \* after that ("renewed late")
    delayed,          \* history: the clock advanced while the keeper had work
    renewFailed,      \* history: a renewal call failed
    fnOut,            \* FnSpec: the last function application and its result
    pair              \* PairSpec: two keepers and the records PD stores

vars == <<sp, pc, ctxDone, updateTickOn, checkTickOn, updateTickC, checkTickC,
          updateDue, checkDue, inflight, gcSafePoint, serviceSafePoint, calls,
          expiry, delayed, renewFailed, fnOut, pair>>

tickerVars == <<updateTickOn, checkTickOn, updateTickC, checkTickC,
                updateDue, checkDue>>

NoResp == [val |-> 0, err |-> FALSE]
NoReq == [id |-> "", ttl |-> 0, ts |-> 0]
NoCall == [op |-> "none", state |-> "none", req |-> NoReq, resp |-> NoResp]
NoRecord == [present |-> FALSE, value |-> 0, ttlLeft |-> 0]
NoFn == [op |-> "none"]
NoPair == [sps |-> <<>>, inflight |-> <<>>, store |-> <<>>, writers |-> <<>>]

\* Faulty variant: the query passes the timestamp to protect as its probe.
CheckRequest_ProbesBackupTS == [id |-> "gc", ttl |-> 0, ts |-> sp.BackupTS]

\* The request of getGCSafePoint: the probe value under a fixed key.
CheckRequest == [id |-> "gc", ttl |-> 0, ts |-> getGCSafePointProbe]

Sent(op, req) == [op |-> op, state |-> "sent", req |-> req, resp |-> NoResp]

\* The history of remote calls: which kinds of call were made (`kinds`, each
\* an operation with what drove it), which call came first, how many
\* renewals the caller's thread made, every renewal request submitted, and
\* how many calls were sent and have not returned yet (`open`).
NoCalls ==
    [kinds |-> {}, first |-> "none", startup |-> 0, submitted |-> {}, open |-> 0]

Kind(op, by) == [op |-> op, by |-> by]

Log(op, by, req) ==
    [kinds     |-> calls.kinds \cup {Kind(op, by)},
     first     |-> IF calls.kinds = {} THEN by ELSE calls.first,
     startup   |-> IF by = "startup" THEN calls.startup + 1 ELSE calls.startup,
     submitted |-> IF op = "update" THEN calls.submitted \cup {req}
                   ELSE calls.submitted,
     open      |-> calls.open + 1]

\* The call in flight has returned.
Closed == [calls EXCEPT !.open = calls.open - 1]

KeeperInit ==
    /\ sp \in BRServiceSafePoint
    /\ pc = "entry"
    /\ ctxDone = FALSE
    /\ updateTickOn = FALSE
    /\ checkTickOn = FALSE
    /\ updateTickC = 0
    /\ checkTickC = 0
    /\ updateDue = 0
    /\ checkDue = 0
    /\ inflight = NoCall
    /\ gcSafePoint \in Uints
    /\ serviceSafePoint = NoRecord
    /\ calls = NoCalls
    /\ expiry = "no"
    /\ delayed = FALSE
    /\ renewFailed = FALSE

Init == KeeperInit /\ fnOut = NoFn /\ pair = NoPair

(***************************************************************************)
(* StartServiceSafePointKeeper, lines 101-119: compute updateGapTime,      *)
(* create the two tickers (time.NewTicker panics on a non-positive period) *)
(* and send the startup renewal on the caller's thread.                    *)
(***************************************************************************)
\* Faulty variant: the goroutine is started without update(ctx) before it.
StartKeeper_NoStartupUpdate ==
    /\ pc = "entry"
    /\ IF updateGapTime(sp) <= 0
       THEN /\ pc' = "ticker_panic"
            /\ UNCHANGED <<tickerVars, inflight, calls>>
       ELSE /\ updateTickOn' = TRUE
            /\ checkTickOn' = TRUE
            /\ updateDue' = updateGapTime(sp)
            /\ checkDue' = checkGCSafePointGapTime
            /\ UNCHANGED <<updateTickC, checkTickC, inflight, calls>>
            /\ pc' = "select"
    /\ UNCHANGED <<sp, ctxDone, gcSafePoint, serviceSafePoint, expiry, delayed, renewFailed, fnOut, pair>>

\* Faulty variant: the goroutine is started before update(ctx) has returned.
StartKeeper_SpawnsBeforeUpdate ==
    /\ pc = "entry"
    /\ IF updateGapTime(sp) <= 0
       THEN /\ pc' = "ticker_panic"
            /\ UNCHANGED <<tickerVars, inflight, calls>>
       ELSE /\ updateTickOn' = TRUE
            /\ checkTickOn' = TRUE
            /\ updateDue' = updateGapTime(sp)
            /\ checkDue' = checkGCSafePointGapTime
            /\ UNCHANGED <<updateTickC, checkTickC>>
            /\ inflight' = Sent("update", UpdateRequest(sp))
            /\ calls' = Log("update", "startup", UpdateRequest(sp))
            /\ pc' = "select"
    /\ UNCHANGED <<sp, ctxDone, gcSafePoint, serviceSafePoint, expiry, delayed, renewFailed, fnOut, pair>>

StartKeeper ==
    /\ pc = "entry"
    /\ IF updateGapTime(sp) <= 0
       THEN /\ pc' = "ticker_panic"
            /\ UNCHANGED <<tickerVars, inflight, calls>>
       ELSE /\ updateTickOn' = TRUE
            /\ checkTickOn' = TRUE
            /\ updateDue' = updateGapTime(sp)
            /\ checkDue' = checkGCSafePointGapTime
            /\ UNCHANGED <<updateTickC, checkTickC>>
            /\ inflight' = Sent("update", UpdateRequest(sp))
            /\ calls' = Log("update", "startup", UpdateRequest(sp))
            /\ pc' = "startup"
    /\ UNCHANGED <<sp, ctxDone, gcSafePoint, serviceSafePoint, expiry, delayed, renewFailed, fnOut, pair>>

(***************************************************************************)
(* PD serves pdClient.UpdateServiceGCSafePoint(id, ttl, ts): on success    *)
(* the record under id holds ts for ttl seconds.                           *)
(***************************************************************************)
PDServeUpdate ==
    /\ inflight.op = "update"
    /\ inflight.state = "sent"
    /\ \E resp \in PDResponses :
         /\ inflight' = [inflight EXCEPT !.state = "served", !.resp = resp]
         /\ IF resp.err
            THEN UNCHANGED <<serviceSafePoint, expiry>>
            ELSE /\ serviceSafePoint' = [present |-> TRUE,
                                         value   |-> inflight.req.ts,
                                         ttlLeft |-> inflight.req.ttl * Second]
                 /\ expiry' = IF expiry = "expired" THEN "renewed late" ELSE expiry
         /\ renewFailed' = (renewFailed \/ resp.err)
    /\ UNCHANGED <<sp, pc, ctxDone, tickerVars, gcSafePoint, calls, delayed, fnOut, pair>>

(***************************************************************************)
(* PD serves pdClient.UpdateGCSafePoint(probe): it answers with the global *)
(* GC safe point after the update, or fails.                               *)
(***************************************************************************)
PDServeCheck ==
    /\ inflight.op = "check"
    /\ inflight.state = "sent"
    /\ \E ok \in BOOLEAN :
         IF ok
         THEN /\ gcSafePoint' = PDUpdateGCSafePoint(gcSafePoint, inflight.req.ts)
              /\ inflight' = [inflight EXCEPT !.state = "served",
                                !.resp = [val |-> gcSafePoint', err |-> FALSE]]
         ELSE /\ UNCHANGED gcSafePoint
              /\ inflight' = [inflight EXCEPT !.state = "served",
                                !.resp = [val |-> 0, err |-> TRUE]]
    /\ UNCHANGED <<sp, pc, ctxDone, tickerVars, serviceSafePoint, calls, expiry,
                   delayed, renewFailed, fnOut, pair>>

(***************************************************************************)
(* update(ctx) returns, lines 102-108: UpdateServiceSafePoint's error is   *)
(* logged and dropped.  After the startup call the goroutine is started    *)
(* (line 120) and the function returns to its caller.                      *)
(***************************************************************************)
\* Faulty variant: a failed renewal is sent again at once.
UpdateReturn_RetriesOnError ==
    /\ pc \in {"startup", "update"}
    /\ inflight.state = "served"
    /\ IF UpdateServiceSafePoint(sp, inflight.resp).ret = "error"
       THEN /\ inflight' = Sent("update", UpdateRequest(sp))
            /\ UNCHANGED <<pc, calls>>
       ELSE /\ inflight' = NoCall
            /\ calls' = Closed
            /\ pc' = "select"
    /\ UNCHANGED <<sp, ctxDone, tickerVars, gcSafePoint, serviceSafePoint,
                   expiry, delayed, renewFailed, fnOut, pair>>

UpdateReturn ==
    /\ pc \in {"startup", "update"}
    /\ inflight.state = "served"
    /\ UpdateServiceSafePoint(sp, inflight.resp).ret \in {"nil", "error"}
    /\ inflight' = NoCall
    /\ calls' = Closed
    /\ pc' = "select"
    /\ UNCHANGED <<sp, ctxDone, tickerVars, gcSafePoint, serviceSafePoint,
                   expiry, delayed, renewFailed, fnOut, pair>>

(***************************************************************************)
(* The goroutine's select, lines 123-132.                                  *)
(***************************************************************************)
\* case <-ctx.Done(): return, with both deferred Stop calls.
\* Faulty variant: one last renewal is sent on cancellation.
LoopExit_RenewsOnExit ==
    /\ pc = "select"
    /\ ctxDone
    /\ inflight' = Sent("update", UpdateRequest(sp))
    /\ calls' = Log("update", "exit", UpdateRequest(sp))
    /\ pc' = "update"
    /\ UNCHANGED <<sp, ctxDone, tickerVars, gcSafePoint, serviceSafePoint,
                   expiry, delayed, renewFailed, fnOut, pair>>

LoopExit ==
    /\ pc = "select"
    /\ ctxDone
    /\ pc' = "exited"
    /\ updateTickOn' = FALSE
    /\ checkTickOn' = FALSE
    /\ UNCHANGED <<sp, ctxDone, updateTickC, checkTickC, updateDue, checkDue,
                   inflight, gcSafePoint, serviceSafePoint, calls, expiry, delayed,
                   renewFailed, fnOut, pair>>

\* case <-updateTick.C: update(ctx)
LoopUpdate ==
    /\ pc = "select"
    /\ updateTickC = 1
    /\ updateTickC' = 0
    /\ inflight' = Sent("update", UpdateRequest(sp))
    /\ calls' = Log("update", "tick", UpdateRequest(sp))
    /\ pc' = "update"
    /\ UNCHANGED <<sp, ctxDone, updateTickOn, checkTickOn, checkTickC, updateDue,
                   checkDue, gcSafePoint, serviceSafePoint, expiry, delayed, renewFailed, fnOut, pair>>

\* case <-checkTick.C: check(ctx)
\* Faulty variant: the check tick calls update(ctx).
LoopCheck_CallsUpdate ==
    /\ pc = "select"
    /\ checkTickC = 1
    /\ checkTickC' = 0
    /\ inflight' = Sent("update", UpdateRequest(sp))
    /\ calls' = Log("update", "tick", UpdateRequest(sp))
    /\ pc' = "update"
    /\ UNCHANGED <<sp, ctxDone, updateTickOn, checkTickOn, updateTickC, updateDue,
                   checkDue, gcSafePoint, serviceSafePoint, expiry, delayed, renewFailed, fnOut, pair>>

LoopCheck ==
    /\ pc = "select"
    /\ checkTickC = 1
    /\ checkTickC' = 0
    /\ inflight' = Sent("check", CheckRequest)
    /\ calls' = Log("check", "tick", CheckRequest)
    /\ pc' = "check"
    /\ UNCHANGED <<sp, ctxDone, updateTickOn, checkTickOn, updateTickC, updateDue,
                   checkDue, gcSafePoint, serviceSafePoint, expiry, delayed, renewFailed, fnOut, pair>>

(***************************************************************************)
(* check(ctx) returns, lines 109-116: a GC-exceeded error is a log.Panic,  *)
(* which unwinds the goroutine through the two deferred Stop calls.        *)
(***************************************************************************)
\* Faulty variant: the GC-exceeded error is logged and the loop goes on.
CheckReturn_WarnsOnly ==
    /\ pc = "check"
    /\ inflight.state = "served"
    /\ inflight' = NoCall
    /\ calls' = Closed
    /\ pc' = "select"
    /\ UNCHANGED <<sp, ctxDone, tickerVars, gcSafePoint, serviceSafePoint,
                   expiry, delayed, renewFailed, fnOut, pair>>

\* Faulty variant: the tickers are stopped after the loop, not by defer, so
\* the panic leaves them running.
CheckReturn_PanicSkipsStop ==
    /\ pc = "check"
    /\ inflight.state = "served"
    /\ inflight' = NoCall
    /\ calls' = Closed
    /\ pc' = IF CheckGCSafePoint(sp.BackupTS, inflight.resp) # "nil"
             THEN "panicked" ELSE "select"
    /\ UNCHANGED <<sp, ctxDone, tickerVars, gcSafePoint, serviceSafePoint,
                   expiry, delayed, renewFailed, fnOut, pair>>

CheckReturn ==
    /\ pc = "check"
    /\ inflight.state = "served"
    /\ inflight' = NoCall
    /\ calls' = Closed
    /\ IF CheckGCSafePoint(sp.BackupTS, inflight.resp) # "nil"
       THEN /\ pc' = "panicked"
            /\ updateTickOn' = FALSE
            /\ checkTickOn' = FALSE
       ELSE /\ pc' = "select"
            /\ UNCHANGED <<updateTickOn, checkTickOn>>
    /\ UNCHANGED <<sp, ctxDone, updateTickC, checkTickC, updateDue, checkDue,
                   gcSafePoint, serviceSafePoint, expiry, delayed, renewFailed, fnOut, pair>>

(***************************************************************************)
(* Environment: the caller cancels ctx; GC advances the global safe point; *)
(* a running ticker delivers a tick (dropped when one is buffered already).*)
(***************************************************************************)
Cancel ==
    /\ ~ctxDone
    /\ ctxDone' = TRUE
    /\ UNCHANGED <<sp, pc, tickerVars, inflight, gcSafePoint, serviceSafePoint,
                   calls, expiry, delayed, renewFailed, fnOut, pair>>

GCAdvance ==
    /\ gcSafePoint < MaxUint
    /\ \E v \in (gcSafePoint + 1)..MaxUint : gcSafePoint' = v
    /\ UNCHANGED <<sp, pc, ctxDone, tickerVars, inflight, serviceSafePoint, calls,
                   expiry, delayed, renewFailed, fnOut, pair>>

UpdateTickFires ==
    /\ updateTickOn
    /\ updateTickC = 0
    /\ updateTickC' = 1
    /\ UNCHANGED <<sp, pc, ctxDone, updateTickOn, checkTickOn, checkTickC,
                   updateDue, checkDue, inflight, gcSafePoint, serviceSafePoint,
                   calls, expiry, delayed, renewFailed, fnOut, pair>>

CheckTickFires ==
    /\ checkTickOn
    /\ checkTickC = 0
    /\ checkTickC' = 1
    /\ UNCHANGED <<sp, pc, ctxDone, updateTickOn, checkTickOn, updateTickC,
                   updateDue, checkDue, inflight, gcSafePoint, serviceSafePoint,
                   calls, expiry, delayed, renewFailed, fnOut, pair>>

Next ==
    \/ StartKeeper
    \/ PDServeUpdate
    \/ PDServeCheck
    \/ UpdateReturn
    \/ LoopExit
    \/ LoopUpdate
    \/ LoopCheck
    \/ CheckReturn
    \/ Cancel
    \/ GCAdvance
    \/ UpdateTickFires
    \/ CheckTickFires

Spec == Init /\ [][Next]_vars


(***************************************************************************)
(* LiveSpec: remote calls return, a running check ticker keeps firing, and *)
(* select, which picks uniformly at random among its ready cases, picks    *)
(* each case that is ready again and again.                                *)
(***************************************************************************)
Fairness ==
    /\ WF_vars(StartKeeper)
    /\ WF_vars(PDServeUpdate)
    /\ WF_vars(PDServeCheck)
    /\ WF_vars(UpdateReturn)
    /\ WF_vars(CheckReturn)
    /\ WF_vars(CheckTickFires)
    /\ WF_vars(UpdateTickFires)
    /\ SF_vars(LoopCheck)
    /\ SF_vars(LoopUpdate)
    /\ SF_vars(LoopExit)

LiveSpec == Init /\ [][Next]_vars /\ Fairness

(***************************************************************************)
(* FnSpec: CheckGCSafePoint and UpdateServiceSafePoint applied to inputs   *)
(* drawn from bounded sets; the keeper is not started.                     *)
(***************************************************************************)
keeperVars == <<sp, pc, ctxDone, tickerVars, inflight, gcSafePoint,
                serviceSafePoint, calls, expiry, delayed, renewFailed>>

FnInit ==
    /\ sp = [ID |-> "br-1", TTL |-> 1, BackupTS |-> 1]
    /\ pc = "entry"
    /\ ctxDone = FALSE
    /\ updateTickOn = FALSE
    /\ checkTickOn = FALSE
    /\ updateTickC = 0
    /\ checkTickC = 0
    /\ updateDue = 0
    /\ checkDue = 0
    /\ inflight = NoCall
    /\ gcSafePoint = 0
    /\ serviceSafePoint = NoRecord
    /\ calls = NoCalls
    /\ expiry = "no"
    /\ delayed = FALSE
    /\ renewFailed = FALSE
    /\ fnOut = NoFn
    /\ pair = NoPair

\* CheckGCSafePoint(ts) while PD's global safe point is `actual` and the
\* query succeeds (ok) or fails.
ApplyCheckGCSafePoint ==
    /\ \E ts \in Uints, actual \in Uints, ok \in BOOLEAN :
         LET resp == IF ok THEN [val |-> PDUpdateGCSafePoint(actual, getGCSafePointProbe),
                                 err |-> FALSE]
                     ELSE [val |-> 0, err |-> TRUE]
         IN fnOut' = [op |-> "check", ts |-> ts, actual |-> actual, resp |-> resp,
                      ret |-> CheckGCSafePoint(ts, resp)]
    /\ UNCHANGED <<keeperVars, pair>>

\* UpdateServiceSafePoint(s) while PD answers resp.
ApplyUpdateServiceSafePoint ==
    /\ \E s \in BRServiceSafePoint, resp \in PDResponses :
         fnOut' = [op |-> "update", sp |-> s, resp |-> resp,
                   req |-> UpdateRequest(s),
                   out |-> UpdateServiceSafePoint(s, resp)]
    /\ UNCHANGED <<keeperVars, pair>>

FnNext ==
    \/ ApplyCheckGCSafePoint
    \/ ApplyUpdateServiceSafePoint

FnSpec == FnInit /\ [][FnNext]_vars

(***************************************************************************)
(* TimedSpec: the clock advances by one unit.  A running ticker whose      *)
(* period has elapsed sends a tick (time.Ticker drops it when one is       *)
(* buffered) and starts its next period; PD drops a record whose TTL has   *)
(* run out.  Nothing in the code bounds the duration of a remote call or   *)
(* the time the goroutine takes to be scheduled, so the clock may advance  *)
(* in every state; `delayed` records that it did while the keeper had a    *)
(* call in flight or a ready case in its select.  TimedSpec follows a      *)
(* keeper whose ctx is not cancelled, under a global safe point that stays *)
(* where it is.                                                            *)
(***************************************************************************)
KeeperBusy ==
    \/ inflight.op # "none"
    \/ pc = "select" /\ (ctxDone \/ updateTickC = 1 \/ checkTickC = 1)

Advance ==
    /\ pc # "entry"
    /\ IF updateTickOn
       THEN IF updateDue = 1
            THEN updateTickC' = 1 /\ updateDue' = updateGapTime(sp)
            ELSE updateDue' = updateDue - 1 /\ UNCHANGED updateTickC
       ELSE UNCHANGED <<updateTickC, updateDue>>
    /\ IF checkTickOn
       THEN IF checkDue = 1
            THEN checkTickC' = 1 /\ checkDue' = checkGCSafePointGapTime
            ELSE checkDue' = checkDue - 1 /\ UNCHANGED checkTickC
       ELSE UNCHANGED <<checkTickC, checkDue>>
    /\ IF serviceSafePoint.present
       THEN IF serviceSafePoint.ttlLeft = 1
            THEN /\ serviceSafePoint' = NoRecord
                 /\ expiry' = IF expiry = "no" THEN "expired" ELSE expiry
            ELSE /\ serviceSafePoint' =
                      [serviceSafePoint EXCEPT !.ttlLeft = serviceSafePoint.ttlLeft - 1]
                 /\ UNCHANGED expiry
       ELSE UNCHANGED <<serviceSafePoint, expiry>>
    /\ delayed' = (delayed \/ KeeperBusy)
    /\ UNCHANGED <<sp, pc, ctxDone, updateTickOn, checkTickOn, inflight,
                   gcSafePoint, calls, renewFailed, fnOut, pair>>

TimedNext ==
    \/ StartKeeper
    \/ PDServeUpdate
    \/ PDServeCheck
    \/ UpdateReturn
    \/ LoopUpdate
    \/ LoopCheck
    \/ CheckReturn
    \/ Advance

TimedSpec == Init /\ [][TimedNext]_vars

(***************************************************************************)
(* StartSpec: StartServiceSafePointKeeper up to its return, for every TTL  *)
(* of WideTTLs.                                                            *)
(***************************************************************************)
StartInit ==
    /\ sp \in [ID : IDs, TTL : WideTTLs, BackupTS : Uints]
    /\ pc = "entry"
    /\ ctxDone = FALSE
    /\ updateTickOn = FALSE
    /\ checkTickOn = FALSE
    /\ updateTickC = 0
    /\ checkTickC = 0
    /\ updateDue = 0
    /\ checkDue = 0
    /\ inflight = NoCall
    /\ gcSafePoint \in Uints
    /\ serviceSafePoint = NoRecord
    /\ calls = NoCalls
    /\ expiry = "no"
    /\ delayed = FALSE
    /\ renewFailed = FALSE
    /\ fnOut = NoFn
    /\ pair = NoPair

StartNext ==
    \/ StartKeeper
    \/ PDServeUpdate
    \/ UpdateReturn

StartSpec == StartInit /\ [][StartNext]_vars

(***************************************************************************)
(* PairSpec: two keepers, each with the id MakeSafePointID gave it from a  *)
(* UUID of its own, renew against one PD.  Each keeper sends its renewals  *)
(* one after another; the calls of the two interleave freely.  PD keeps    *)
(* one record per service id; `writers` records whose requests wrote it.   *)
(***************************************************************************)
PairIDs == {MakeSafePointID(u) : u \in UUIDs}

PairInit ==
    /\ sp = [ID |-> "br-1", TTL |-> 1, BackupTS |-> 1]
    /\ pc = "entry"
    /\ ctxDone = FALSE
    /\ updateTickOn = FALSE
    /\ checkTickOn = FALSE
    /\ updateTickC = 0
    /\ checkTickC = 0
    /\ updateDue = 0
    /\ checkDue = 0
    /\ inflight = NoCall
    /\ gcSafePoint = 0
    /\ serviceSafePoint = NoRecord
    /\ calls = NoCalls
    /\ expiry = "no"
    /\ delayed = FALSE
    /\ renewFailed = FALSE
    /\ fnOut = NoFn
    /\ \E ttl \in [UUIDs -> 1..MaxTTL], ts \in [UUIDs -> Uints] :
         pair = [sps      |-> [u \in UUIDs |-> [ID       |-> MakeSafePointID(u),
                                                TTL      |-> ttl[u],
                                                BackupTS |-> ts[u]]],
                 inflight |-> [u \in UUIDs |-> NoCall],
                 store    |-> [id \in PairIDs |-> NoRecord],
                 writers  |-> [id \in PairIDs |-> {}]]

\* Keeper u calls UpdateServiceSafePoint (line 119 or the update case).
PairSend(u) ==
    /\ pair.inflight[u] = NoCall
    /\ pair' = [pair EXCEPT !.inflight[u] = Sent("update", UpdateRequest(pair.sps[u]))]
    /\ UNCHANGED <<keeperVars, fnOut>>

\* PD serves UpdateServiceGCSafePoint(id, ttl, ts) of keeper u.
PairServe(u) ==
    /\ pair.inflight[u].state = "sent"
    /\ LET req == pair.inflight[u].req IN
       \E ok \in BOOLEAN :
         IF ok
         THEN pair' = [pair EXCEPT
                         !.inflight[u] = [@ EXCEPT !.state = "served",
                                            !.resp = [val |-> pair.store[req.id].value,
                                                       err |-> FALSE]],
                         !.store[req.id] = [present |-> TRUE,
                                             value   |-> req.ts,
                                             ttlLeft |-> req.ttl * Second],
                         !.writers[req.id] = @ \cup {u}]
         ELSE pair' = [pair EXCEPT
                         !.inflight[u] = [@ EXCEPT !.state = "served",
                                            !.resp = [val |-> 0, err |-> TRUE]]]
    /\ UNCHANGED <<keeperVars, fnOut>>

\* update(ctx) of keeper u returns.
PairReturn(u) ==
    /\ pair.inflight[u].state = "served"
    /\ UpdateServiceSafePoint(pair.sps[u], pair.inflight[u].resp).ret \in {"nil", "error"}
    /\ pair' = [pair EXCEPT !.inflight[u] = NoCall]
    /\ UNCHANGED <<keeperVars, fnOut>>

PairNext ==
    \E u \in UUIDs :
        \/ PairSend(u)
        \/ PairServe(u)
        \/ PairReturn(u)

PairSpec == PairInit /\ [][PairNext]_vars

(***************************************************************************)
(* Properties.                                                             *)
(***************************************************************************)
\* StartServiceSafePointKeeper has returned to its caller.
Returned == pc \in {"select", "update", "check", "exited", "panicked"}

\* The goroutine is in its loop.
InLoop == pc \in {"select", "update", "check"}

\* C1: when StartServiceSafePointKeeper has returned, PD holds a record
\* under the keeper's id whose value is BackupTS - 1, whatever the outcome
\* of the startup renewal was.
C1_ReservationExistsOnReturn ==
    Returned =>
        /\ serviceSafePoint.present
        /\ (serviceSafePoint.value + 1) % (MaxUint + 1) = sp.BackupTS

\* C2: the first remote call of a started keeper is the startup renewal,
\* there is exactly one startup renewal, and every timer-driven call comes
\* after it has returned.
C2_OneStartupRenewalFirst ==
    /\ (Returned \/ pc = "startup") =>
         /\ calls.first = "startup"
         /\ calls.startup = 1
         /\ Kind("update", "startup") \in calls.kinds
    /\ calls.kinds # {} => calls.first = "startup"
    /\ calls.startup <= 1
    /\ pc = "startup" => calls.kinds = {Kind("update", "startup")}

C2_Witness ==
    /\ Kind("update", "tick") \in calls.kinds
    /\ Kind("check", "tick") \in calls.kinds
    /\ pc = "select"

\* C3 as claimed: while the keeper runs, ctx is not cancelled and no renewal
\* has failed, no renewal reaches PD a TTL or more after the one before it,
\* that is, after PD dropped the record.
KeeperRunning == (pc = "startup" \/ InLoop) /\ ~ctxDone

C4_ExceededCheckAborts ==
    [][ /\ (/\ pc = "check"
            /\ inflight.state = "served"
            /\ ~inflight.resp.err
            /\ inflight.resp.val >= sp.BackupTS
            /\ pc' # pc) => pc' = "panicked"
        /\ pc = "panicked" =>
             /\ pc' = "panicked"
             /\ inflight = NoCall
             /\ inflight' = NoCall
             /\ calls' = calls ]_vars

C4_Witness ==
    /\ pc = "panicked"
    /\ gcSafePoint >= sp.BackupTS
    /\ updateTickC = 1

\* C5: with ctx never cancelled and no query failing, a started keeper
\* whose BackupTS is at or below the global safe point eventually panics.
NoQueryFailure ==
    ~(inflight.op = "check" /\ inflight.state = "served" /\ inflight.resp.err)

C5_EventuallyAborts ==
    ([]~ctxDone /\ []NoQueryFailure) =>
        (((pc = "startup" \/ InLoop) /\ gcSafePoint >= sp.BackupTS)
            ~> (pc = "panicked"))

C5_Witness ==
    /\ pc = "panicked"
    /\ ~ctxDone
    /\ updateTickC = 1
    /\ Kind("update", "tick") \in calls.kinds

\* C6 as claimed: once ctx is cancelled the loop starts no remote call and
\* never reaches the panic.
C6_NoCallAfterCancel ==
    [][ ctxDone =>
          /\ (pc = "select" => pc' \in {"select", "exited"})
          /\ pc' # "panicked" ]_vars

\* C6 as amended: once ctx is cancelled, a loop that waits in select with
\* no tick buffered can only take the clean exit, which makes no remote
\* call; and the loop exits cleanly only on cancellation.
C6_CleanExitWhenNoTickPending ==
    [][ /\ (/\ ctxDone
            /\ pc = "select"
            /\ updateTickC = 0
            /\ checkTickC = 0
            /\ pc' # pc) =>
               /\ pc' = "exited"
               /\ inflight' = NoCall
               /\ calls' = calls
        /\ (pc # "exited" /\ pc' = "exited") =>
               /\ ctxDone
               /\ pc = "select"
               /\ inflight' = NoCall
               /\ calls' = calls ]_vars

C6_Witness ==
    /\ pc = "exited"
    /\ ctxDone
    /\ calls.kinds = {Kind("update", "startup")}

\* C7: with a successful query, CheckGCSafePoint(ts) is nil when the safe
\* point is below ts and the GC-exceeded error when it is ts or above.
C7_CheckComparesStrictly ==
    (fnOut.op = "check" /\ ~fnOut.resp.err) =>
        /\ fnOut.resp.val < fnOut.ts => fnOut.ret = "nil"
        /\ fnOut.resp.val >= fnOut.ts => fnOut.ret = "ErrBackupGCSafepointExceeded"

C7_Witness ==
    /\ fnOut.op = "check"
    /\ ~fnOut.resp.err
    /\ fnOut.ts > 0
    /\ fnOut.resp.val = fnOut.ts
    /\ fnOut.ret = "ErrBackupGCSafepointExceeded"

\* C8: when the query fails, CheckGCSafePoint(ts) is nil for every ts and
\* every actual global safe point.
C8_QueryFailureSwallowed ==
    (fnOut.op = "check" /\ fnOut.resp.err) => fnOut.ret = "nil"

C8_Witness ==
    /\ fnOut.op = "check"
    /\ fnOut.resp.err
    /\ fnOut.actual >= fnOut.ts
    /\ fnOut.actual > 0
    /\ fnOut.ret = "nil"

\* C9: every renewal request, the one in flight and the logged ones, from
\* the startup or from a tick, carries sp.ID, sp.TTL and BackupTS - 1
\* (never BackupTS).
IsKeeperTriple(req) ==
    /\ req.id = sp.ID
    /\ req.ttl = sp.TTL
    /\ (req.ts + 1) % (MaxUint + 1) = sp.BackupTS
    /\ req.ts # sp.BackupTS

C9_SameTripleEveryRenewal ==
    /\ inflight.op = "update" => IsKeeperTriple(inflight.req)
    /\ \A req \in calls.submitted : IsKeeperTriple(req)
    /\ Cardinality(calls.submitted) <= 1

C9_Witness ==
    /\ Kind("update", "startup") \in calls.kinds
    /\ Kind("update", "tick") \in calls.kinds
    /\ Cardinality(calls.submitted) = 1
    /\ sp.BackupTS = 0
    /\ pc = "select"

\* C10: when the value PD reports is above BackupTS - 1, the warning is
\* emitted and UpdateServiceSafePoint returns nil.
C10_LostWarningIsNotAnError ==
    (fnOut.op = "update" /\ fnOut.resp.val > (fnOut.sp.BackupTS + MaxUint) % (MaxUint + 1)) =>
        /\ fnOut.out.warn
        /\ fnOut.out.ret = "nil"

C10_Witness ==
    /\ fnOut.op = "update"
    /\ fnOut.resp.val > (fnOut.sp.BackupTS + MaxUint) % (MaxUint + 1)
    /\ fnOut.out.warn
    /\ fnOut.out.ret = "nil"

\* C11: a failed renewal neither stops the loop nor is sent again at once.
\* A tick leaves updateTick.C only by the select case that sends one renewal;
\* update(ctx) of the loop returns to the select with both tickers running,
\* whatever the outcome; and a renewal is sent only by the startup or by the
\* select case consuming a tick.
C11_FailedRenewalNotRetried ==
    [][/\ (updateTickC = 1 /\ updateTickC' = 0) =>
            /\ pc = "select"
            /\ pc' = "update"
            /\ inflight' = Sent("update", UpdateRequest(sp))
       /\ (pc = "update" /\ pc' # "update") =>
            /\ pc' = "select"
            /\ inflight' = NoCall
            /\ updateTickOn'
            /\ checkTickOn'
       /\ (inflight' # inflight /\ inflight'.op = "update" /\ inflight'.state = "sent") =>
            \/ pc = "entry"
            \/ pc = "select" /\ updateTickC = 1 /\ updateTickC' = 0
      ]_vars

\* Every renewal failed, one of them driven by a tick, and the loop is back
\* in its select with the tickers running.
C11_Witness ==
    /\ pc = "select"
    /\ renewFailed
    /\ ~serviceSafePoint.present
    /\ Kind("update", "tick") \in calls.kinds
    /\ updateTickOn
    /\ checkTickOn

\* C12: for every ttl > 0 the keeper starts and its renewal ticker has the
\* period ttl * Second / 3.
C12_PeriodIsThirdOfTTL ==
    (sp.TTL > 0 /\ pc # "entry") =>
        /\ pc # "ticker_panic"
        /\ updateTickOn
        /\ updateDue = (sp.TTL * Second) \div preUpdateServiceSafePointFactor

\* C13: with two keepers of distinct ids, the record PD stores under an id
\* is written by the keeper of that id alone and holds that keeper's TTL and
\* BackupTS - 1; every request in flight carries the id of its keeper.
C13_KeepersWriteOwnRecord ==
    \A u \in UUIDs :
        LET id == pair.sps[u].ID IN
        /\ pair.writers[id] \subseteq {u}
        /\ pair.inflight[u].op = "update" => pair.inflight[u].req.id = id
        /\ pair.store[id].present =>
             /\ pair.store[id].value = Dec(pair.sps[u].BackupTS)
             /\ pair.store[id].ttlLeft = pair.sps[u].TTL * Second

\* Both keepers registered, with different values, and one of them is
\* renewing again.
C13_Witness ==
    /\ \A u \in UUIDs : pair.writers[pair.sps[u].ID] = {u}
    /\ pair.store["br-1"].value # pair.store["br-2"].value
    /\ \E u \in UUIDs : pair.inflight[u].state = "sent"

\* C14: the keeper panics only on the return of a check whose query
\* succeeded with a safe point at or above BackupTS; a served renewal,
\* whatever PD answered, and a failed query leave the loop in its select
\* with both tickers running.
C14_AbortsOnlyOnExceededCheck ==
    [][/\ (pc' = "panicked" /\ pc # "panicked") =>
            /\ pc = "check"
            /\ inflight.state = "served"
            /\ ~inflight.resp.err
            /\ inflight.resp.val >= sp.BackupTS
       /\ (/\ pc' # pc
           /\ inflight.state = "served"
           /\ inflight.op = "update" \/ inflight.resp.err) =>
            /\ pc' = "select"
            /\ updateTickOn'
            /\ checkTickOn'
      ]_vars

\* BackupTS is 0, so every successful query would have ended in the panic:
\* every query failed, a renewal failed too, GC advanced to the largest
\* value, and the loop is in its select.
C14_Witness ==
    /\ pc = "select"
    /\ sp.BackupTS = 0
    /\ gcSafePoint = MaxUint
    /\ Kind("check", "tick") \in calls.kinds
    /\ renewFailed
    /\ updateTickOn
    /\ checkTickOn

\* C15: a keeper never has more than one remote call sent and not yet
\* returned, and it has one exactly while it is in the startup renewal, in
\* update(ctx) or in check(ctx): no call is sent before the one before it
\* has returned.
C15_OneCallInFlight ==
    /\ calls.open <= 1
    /\ calls.open = 1 <=> pc \in {"startup", "update", "check"}
    /\ calls.open = 1 <=> inflight.op # "none"

\* A check is in flight while a renewal tick waits in updateTick.C.
C15_Witness ==
    /\ pc = "check"
    /\ inflight.state = "sent"
    /\ updateTickC = 1
    /\ calls.open = 1
    /\ Kind("update", "tick") \in calls.kinds

\* The goroutine leaves its loop only by the return of the ctx.Done() case
\* or by the panic of check(ctx).
LeavesLoopByExitOrPanic ==
    [][(InLoop /\ ~InLoop') =>
          \/ pc = "select" /\ ctxDone /\ pc' = "exited"
          \/ pc = "check" /\ pc' = "panicked"]_vars

\* C16 as claimed: once ctx is cancelled the loop eventually takes the clean
\* exit, and the loop ends only by that exit or by the panic.
C16_ExitsAfterCancel ==
    /\ (ctxDone /\ (InLoop \/ pc = "startup")) ~> (pc = "exited")
    /\ LeavesLoopByExitOrPanic

\* C16 as amended: once ctx is cancelled the loop eventually ends, by the
\* clean exit or, when a check made after the cancellation finds the safe
\* point at or above BackupTS, by the panic; and the loop ends only by one
\* of the two, the clean exit only on cancellation.
C16_TerminatesAfterCancel ==
    /\ (ctxDone /\ (InLoop \/ pc = "startup")) ~> (pc \in {"exited", "panicked"})
    /\ LeavesLoopByExitOrPanic

\* The loop has exited on cancellation with a tick buffered in each channel.
C16_Witness ==
    /\ pc = "exited"
    /\ ctxDone
    /\ updateTickC = 1
    /\ checkTickC = 1
    /\ Kind("update", "tick") \in calls.kinds
    /\ Kind("check", "tick") \in calls.kinds

\* C17: when the goroutine has ended, by the clean exit or by the panic,
\* updateTick and checkTick are both stopped; while it is in its loop both
\* are running.
C17_TickersStoppedOnExit ==
    /\ pc \in {"exited", "panicked"} => (~updateTickOn /\ ~checkTickOn)
    /\ InLoop => (updateTickOn /\ checkTickOn)

\* The goroutine panicked while a tick was buffered in each channel.
C17_Witness ==
    /\ pc = "panicked"
    /\ ~updateTickOn
    /\ ~checkTickOn
    /\ updateTickC = 1
    /\ checkTickC = 1

\* C18: every query of the check carries the probe 0; the step in which PD
\* serves it, successfully or not, leaves the global GC safe point and the
\* service record as they were, a successful answer being that safe point;
\* and so does the return of check(ctx).
C18_CheckOnlyObserves ==
    [][/\ inflight'.op = "check" => inflight'.req.ts = 0
       /\ (inflight.op = "check" /\ inflight' # inflight) =>
            /\ gcSafePoint' = gcSafePoint
            /\ serviceSafePoint' = serviceSafePoint
            /\ (inflight'.state = "served" /\ ~inflight'.resp.err) =>
                 inflight'.resp.val = gcSafePoint
      ]_vars

\* A query was served successfully while the safe point was above 0.
C18_Witness ==
    /\ pc = "check"
    /\ inflight.state = "served"
    /\ ~inflight.resp.err
    /\ gcSafePoint > 0
    /\ inflight.resp.val = gcSafePoint
    /\ gcSafePoint < sp.BackupTS

\* C19: with BackupTS >= 1, as long as the global GC safe point is at most
\* the registered value BackupTS - 1 (it never moves back, so it always
\* was), the keeper has not panicked and the check of a served query
\* reports no error.
C19_NoAbortWhileRespected ==
    (sp.BackupTS >= 1 /\ gcSafePoint <= sp.BackupTS - 1) =>
        /\ pc # "panicked"
        /\ (inflight.op = "check" /\ inflight.state = "served") =>
             CheckGCSafePoint(sp.BackupTS, inflight.resp) = "nil"

\* A query of a keeper that renewed on a tick already is answered with
\* exactly the registered value.
C19_Witness ==
    /\ sp.BackupTS >= 1
    /\ pc = "check"
    /\ inflight.state = "served"
    /\ ~inflight.resp.err
    /\ inflight.resp.val = sp.BackupTS - 1
    /\ gcSafePoint = sp.BackupTS - 1
    /\ Kind("update", "tick") \in calls.kinds

\* No call was sent, no record reached PD, no ticker runs and the goroutine
\* was not started.
NothingStarted ==
    /\ pc \in {"entry", "ticker_panic"}
    /\ calls = NoCalls
    /\ inflight = NoCall
    /\ ~serviceSafePoint.present
    /\ ~updateTickOn
    /\ ~checkTickOn

\* C20: with ttl <= 0 StartServiceSafePointKeeper panics in time.NewTicker,
\* before the startup renewal: nothing is started.
C20_NonPositiveTTLPanics ==
    sp.TTL <= 0 => NothingStarted

=============================================================================
